---- MODULE Spec2Model ----
(***************************************************************************)
(* Model of the RN2483 LoRaWAN driver (src/rn2483/rn2483.py).              *)
(*                                                                         *)
(* The driver is single threaded.  Its only inputs are the arguments of    *)
(* the public calls and what the serial channel returns on a read, so the  *)
(* model is a call stack whose steps are cut at the blocking reads: an     *)
(* action runs the code from one read (or call entry, or return of a       *)
(* callee) up to the next read.  Every interaction with the platform       *)
(* (watchdog feed, timed sleep, write, read, reset pin, break) is appended *)
(* to `trace`, in program order.                                           *)
(***************************************************************************)
EXTENDS Integers, Sequences, FiniteSets, TLC

VARIABLES
    constructed,  \* TRUE once RN2483.__init__ has returned normally
    app_eui,      \* self.app_eui
    app_key,      \* self.app_key
    hw_eui,       \* self.hw_eui (Unset until the first assignment)
    reset_pin,    \* level of the reset output pin
    stack,        \* call stack, innermost frame last; <<>> when no call runs
    err,          \* exception that ended the running call, "none" otherwise
    ret,          \* value returned by the frame that returned last
    call,         \* the public call that runs or ran last
    trace,        \* platform interactions of that call, in order
    rx,           \* receive buffer of the UART: lines not read yet
    owed,         \* lines the module has still to send
    sent          \* number of command lines written to the module

vars == <<constructed, app_eui, app_key, hw_eui, reset_pin, stack, err, ret,
          call, trace, rx, owed, sent>>

(***************************************************************************)
(* Bounds of the model.                                                    *)
(***************************************************************************)
\* reads of execute_multiple's loop after which the channel times out
MaxLoopReads == 2
\* iterations of the readiness poll after which the module answers
MaxPolls == 2

(***************************************************************************)
(* Constants of the program.                                               *)
(***************************************************************************)
\* default read timeout of the UART in ms (RN2483.__init__, line 49)
uart_timetout == 5000
\* watchdog window of the application in ms (main.py, line 16)
wdt_timeout == 8000

(***************************************************************************)
(* Values.                                                                 *)
(***************************************************************************)
Unset == "<unset>"

\* What UART.readline / UART.read returns: None, or a bytes object.  A bytes
\* object is a sequence of segments; a segment is one whitespace character
\* or a run of non-whitespace characters.
None == [none |-> TRUE, bytes |-> <<>>]
B(segs) == [none |-> FALSE, bytes |-> segs]

Whitespace == {" ", "\t", "\r", "\n"}

\* What the channel returns to a read that follows a command with one answer
\* and to a read that follows `mac join`.
Responses ==
    { None,
      B(<<>>),
      B(<<"ok", "\r", "\n">>),
      B(<<"invalid_param", "\r", "\n">>),
      B(<<"example_hw_eui">>),
      B(<<"\r", "\n">>) }

JoinResponses ==
    { None,
      B(<<>>),
      B(<<"ok", "\r", "\n">>),
      B(<<"accepted", "\r", "\n">>),
      B(<<"denied", "\r", "\n">>),
      B(<<"\r", "\n">>) }

\* Python truth value of a read result: None and b"" are false.
Truthy(response) == ~response.none /\ response.bytes # <<>>

RECURSIVE lstrip(_)
lstrip(segs) ==
    IF segs # <<>> /\ Head(segs) \in Whitespace THEN lstrip(Tail(segs)) ELSE segs

RECURSIVE rstrip(_)
rstrip(segs) ==
    IF segs # <<>> /\ segs[Len(segs)] \in Whitespace
    THEN rstrip(SubSeq(segs, 1, Len(segs) - 1))
    ELSE segs

RECURSIVE join(_)
join(segs) == IF segs = <<>> THEN "" ELSE Head(segs) \o join(Tail(segs))

\* response.decode("utf-8").strip()
decode_strip(response) == join(rstrip(lstrip(response.bytes)))

DigitChars == <<"0", "1", "2", "3", "4", "5", "6", "7", "8", "9">>

\* str(n) for a Python int
RECURSIVE str(_)
str(n) ==
    IF n < 0 THEN "-" \o str(0 - n)
    ELSE IF n < 10 THEN DigitChars[n + 1]
    ELSE str(n \div 10) \o DigitChars[(n % 10) + 1]

\* Python ints are unbounded: the argument of sys_sleep is kept as a sign and
\* the decimal digits of its magnitude, most significant first.
Big(neg, digits) == [neg |-> neg, digits |-> digits]

RECURSIVE DigitsLess(_, _)
DigitsLess(a, b) ==
    IF Len(a) # Len(b) THEN Len(a) < Len(b)
    ELSE IF a = <<>> THEN FALSE
    ELSE IF Head(a) # Head(b) THEN Head(a) < Head(b)
    ELSE DigitsLess(Tail(a), Tail(b))

\* a < b on Python ints
BigLess(a, b) ==
    IF a.neg /\ ~b.neg THEN TRUE
    ELSE IF ~a.neg /\ b.neg THEN FALSE
    ELSE IF a.neg THEN DigitsLess(b.digits, a.digits)
    ELSE DigitsLess(a.digits, b.digits)

RECURSIVE DigitsStr(_)
DigitsStr(d) == IF d = <<>> THEN "" ELSE DigitChars[Head(d) + 1] \o DigitsStr(Tail(d))

\* f"{length}"
BigStr(a) == IF a.neg THEN "-" \o DigitsStr(a.digits) ELSE DigitsStr(a.digits)

(***************************************************************************)
(* Platform interactions.                                                  *)
(***************************************************************************)
Ev(kind, ms, data, resp) == [kind |-> kind, ms |-> ms, data |-> data, resp |-> resp]

Feed           == Ev("feed", 0, "", None)             \* wdt.feed()
Sleep(ms)      == Ev("sleep", ms, "", None)           \* sleep_ms(ms)
Write(line)    == Ev("write", 0, line, None)          \* uart.write(bytes)
Readline(resp) == Ev("readline", 0, "", resp)         \* uart.readline()
Read(resp)     == Ev("read", 0, "", resp)             \* uart.read()
PinSet(level)  == Ev("pin", 0, level, None)           \* reset_pin.high()/low()
Break          == Ev("break", 0, "", None)            \* uart.sendbreak()

\* command + "\r\n" as written to the channel
Line(command) == command \o "\r\n"

(***************************************************************************)
(* Return values and frames.                                               *)
(***************************************************************************)
RetNone      == [none |-> TRUE,  s |-> "", list |-> <<>>]
RetStr(s)    == [none |-> FALSE, s |-> s,  list |-> <<>>]
RetList(l)   == [none |-> FALSE, s |-> "", list |-> l]

\* A frame: the function, the line at which it resumes, and its locals.
Frame(fn, pc) ==
    [command |-> "", fn |-> fn, pc |-> pc, validate |-> FALSE,
     valid |-> <<>>, results |-> <<>>, iter |-> 0]

\* The effect of entering a function and running it up to its first read:
\* the exception it raised ("none" if it is still running or returned), the
\* frames it pushed and the interactions it performed.
Raised(exc) == [err |-> exc, frames |-> <<>>, events |-> <<>>]
Through(fn, pc, pre, o) ==
    [err |-> o.err, frames |-> <<Frame(fn, pc)>> \o o.frames,
     events |-> pre \o o.events]

Top == stack[Len(stack)]
Below == SubSeq(stack, 1, Len(stack) - 1)
Running(fn, pc) == stack # <<>> /\ Top.fn = fn /\ Top.pc = pc
Idle == stack = <<>>

\* The call description kept in `call`.
CallOf(op, text, int, flag, items, big) ==
    [op |-> op, text |-> text, int |-> int, flag |-> flag, items |-> items,
     big |-> big]
NoBig == Big(FALSE, <<0>>)
Op0(op)            == CallOf(op, "", 0, FALSE, <<>>, NoBig)
OpS(op, text)      == CallOf(op, text, 0, FALSE, <<>>, NoBig)
OpN(op, int)       == CallOf(op, "", int, FALSE, <<>>, NoBig)
OpB(op, flag)      == CallOf(op, "", 0, flag, <<>>, NoBig)

(***************************************************************************)
(* execute (lines 158-184).                                                *)
(***************************************************************************)
\* execute writing its command a second time before it reads
execute_written_twice(command, validate, valid) ==
    [err |-> "none",
     frames |-> <<[Frame("execute", 174) EXCEPT
                     !.command = command, !.validate = validate,
                     !.valid = <<valid>>]>>,
     events |-> <<Feed, Write(Line(command)), Sleep(100), Feed,
                  Write(Line(command)), Sleep(100), Feed>>]

\* lines 170-173: up to the blocking readline of line 174
execute(command, validate, valid) ==
    [err |-> "none",
     frames |-> <<[Frame("execute", 174) EXCEPT
                     !.command = command, !.validate = validate,
                     !.valid = <<valid>>]>>,
     events |-> <<Feed, Write(Line(command)), Sleep(100), Feed>>]

\* execute_result testing `response is None` instead of `not response`
execute_result_none_only(response, validate, valid) ==
    IF response.none THEN [err |-> "NoResponse", ret |-> RetNone]
    ELSE LET decoded == decode_strip(response) IN
         IF validate /\ decoded # valid
         THEN [err |-> "InvalidResponse", ret |-> RetNone]
         ELSE [err |-> "none", ret |-> RetStr(decoded)]

\* execute_result without the comparison of line 179
execute_result_unvalidated(response, validate, valid) ==
    IF ~Truthy(response) THEN [err |-> "NoResponse", ret |-> RetNone]
    ELSE [err |-> "none", ret |-> RetStr(decode_strip(response))]

\* lines 176-184: what execute makes of the line it read
execute_result(response, validate, valid) ==
    IF ~Truthy(response) THEN [err |-> "NoResponse", ret |-> RetNone]
    ELSE LET decoded == decode_strip(response) IN
         IF validate /\ decoded # valid
         THEN [err |-> "InvalidResponse", ret |-> RetNone]
         ELSE [err |-> "none", ret |-> RetStr(decoded)]

(***************************************************************************)
(* execute_multiple (lines 186-227).                                       *)
(***************************************************************************)
\* lines 204-208: up to the blocking readline of line 209
execute_multiple(command, validate, valid) ==
    [err |-> "none",
     frames |-> <<[Frame("execute_multiple", 209) EXCEPT
                     !.command = command, !.validate = validate,
                     !.valid = valid]>>,
     events |-> <<Feed, Write(Line(command)), Sleep(5000), Feed>>]

\* line 215: while response is not None
loop_continues(response) == ~response.none

\* lines 220-222: the line is appended when the read returned data
append_response(results, response) ==
    IF Truthy(response) THEN Append(results, decode_strip(response)) ELSE results

\* lines 223-227
execute_multiple_result(results, validate, valid) ==
    IF validate /\ results # valid
    THEN [err |-> "InvalidResponse", ret |-> RetNone]
    ELSE [err |-> "none", ret |-> RetList(results)]

(***************************************************************************)
(* The catalog of operations: each operator is the operation run from its  *)
(* entry up to its first read.                                             *)
(***************************************************************************)
\* reset leaving the line low: low, high, low
reset_inverted(wait_in_ms) ==
    [err |-> "none", frames |-> <<>>,
     events |-> <<PinSet("low"), Sleep(wait_in_ms), Feed,
                  PinSet("high"), Sleep(wait_in_ms), Feed,
                  PinSet("low"), Sleep(wait_in_ms), Feed>>]

\* lines 122-132
reset(wait_in_ms) ==
    [err |-> "none", frames |-> <<>>,
     events |-> <<PinSet("high"), Sleep(wait_in_ms), Feed,
                  PinSet("low"), Sleep(wait_in_ms), Feed,
                  PinSet("high"), Sleep(wait_in_ms), Feed>>]

SleepMin == Big(FALSE, <<1, 0, 0>>)
SleepMax == Big(FALSE, <<4, 2, 9, 4, 9, 6, 7, 2, 9, 6>>)

\* sys_sleep rejecting its upper bound
sys_sleep_exclusive(length) ==
    IF BigLess(length, SleepMin) \/ ~BigLess(length, SleepMax)
    THEN Raised("InvalidInput")
    ELSE [err |-> "none", frames |-> <<>>,
          events |-> <<Write(Line("sys sleep " \o BigStr(length))), Feed>>]

\* lines 150-156
sys_sleep(length) ==
    IF BigLess(length, SleepMin) \/ BigLess(SleepMax, length)
    THEN Raised("InvalidInput")
    ELSE [err |-> "none", frames |-> <<>>,
          events |-> <<Write(Line("sys sleep " \o BigStr(length))), Feed>>]

\* line 236
sys_get_ver == Through("sys_get_ver", 236, <<>>, execute("sys get ver", FALSE, "ok"))

\* line 244
sys_get_hweui ==
    Through("sys_get_hweui", 244, <<>>, execute("sys get hweui", FALSE, "ok"))

\* line 255
mac_reset(band) ==
    Through("mac_reset", 255, <<>>, execute("mac reset " \o str(band), FALSE, "ok"))

\* line 264
mac_set_deveui(deveui) ==
    Through("mac_set_deveui", 264, <<>>, execute("mac set deveui " \o deveui, TRUE, "ok"))

\* lines 276-279
mac_set_appeui(appeui) ==
    IF Len(appeui) # 16 THEN Raised("InvalidInput")
    ELSE Through("mac_set_appeui", 279, <<>>,
                 execute("mac set appeui " \o appeui, TRUE, "ok"))

\* mac_set_appkey without the length check
mac_set_appkey_unchecked(appkey) ==
    Through("mac_set_appkey", 294, <<>>,
            execute("mac set appkey " \o appkey, TRUE, "ok"))

\* lines 291-294
mac_set_appkey(appkey) ==
    IF Len(appkey) # 32 THEN Raised("InvalidInput")
    ELSE Through("mac_set_appkey", 294, <<>>,
                 execute("mac set appkey " \o appkey, TRUE, "ok"))

\* lines 306-311
mac_set_pwridx(pwrindex) ==
    IF pwrindex < 0 \/ pwrindex > 5 THEN Raised("InvalidInput")
    ELSE Through("mac_set_pwridx", 311, <<>>,
                 execute("mac set pwridx " \o str(pwrindex), TRUE, "ok"))

\* lines 323-328
mac_set_dr(datarate) ==
    IF datarate < 0 \/ datarate > 7 THEN Raised("InvalidInput")
    ELSE Through("mac_set_dr", 328, <<>>,
                 execute("mac set dr " \o str(datarate), TRUE, "ok"))

\* bool_to_on_off with the two strings exchanged
bool_to_on_off_inverted(on) == IF on THEN "off" ELSE "on"

\* line 113
bool_to_on_off(on) == IF on THEN "on" ELSE "off"

\* lines 337-338
mac_set_adr(on) ==
    Through("mac_set_adr", 338, <<>>,
            execute("mac set adr " \o bool_to_on_off(on), TRUE, "ok"))

\* lines 347-348
mac_set_ar(on) ==
    Through("mac_set_ar", 348, <<>>,
            execute("mac set ar " \o bool_to_on_off(on), TRUE, "ok"))

\* radio_set_pwr rejecting its upper bound
radio_set_pwr_exclusive(index) ==
    IF index < 3 \/ index >= 15 THEN Raised("InvalidInput")
    ELSE Through("radio_set_pwr", 365, <<>>,
                 execute("radio set pwr " \o str(index), TRUE, "ok"))

\* lines 360-365
radio_set_pwr(index) ==
    IF index < 3 \/ index > 15 THEN Raised("InvalidInput")
    ELSE Through("radio_set_pwr", 365, <<>>,
                 execute("radio set pwr " \o str(index), TRUE, "ok"))

\* mac_save writing its command without reading the answer
mac_save_unread ==
    [err |-> "none", frames |-> <<>>,
     events |-> <<Feed, Write(Line("mac save")), Feed>>]

\* line 370
mac_save == Through("mac_save", 370, <<>>, execute("mac save", TRUE, "ok"))

\* mac_join passing validate=False
mac_join_unvalidated(mode) ==
    Through("mac_join", 379, <<>>,
            execute_multiple("mac join " \o mode, FALSE, <<"ok", "accepted">>))

\* line 379
mac_join(mode) ==
    Through("mac_join", 379, <<>>,
            execute_multiple("mac join " \o mode, TRUE, <<"ok", "accepted">>))

\* bytes(data, "utf-8"), line 388: a str is the sequence of its code points
\* (surrogates excluded), each encoded in one to four bytes
utf8(cp) ==
    IF cp < 128 THEN <<cp>>
    ELSE IF cp < 2048 THEN <<192 + (cp \div 64), 128 + (cp % 64)>>
    ELSE IF cp < 65536
    THEN <<224 + (cp \div 4096), 128 + ((cp \div 64) % 64), 128 + (cp % 64)>>
    ELSE <<240 + (cp \div 262144), 128 + ((cp \div 4096) % 64),
           128 + ((cp \div 64) % 64), 128 + (cp % 64)>>

RECURSIVE encode_utf8(_)
encode_utf8(data) ==
    IF data = <<>> THEN <<>> ELSE utf8(Head(data)) \o encode_utf8(Tail(data))

HexChars == <<"0", "1", "2", "3", "4", "5", "6", "7", "8", "9",
              "a", "b", "c", "d", "e", "f">>

\* a byte written with its low half first
hex_low_first(byte) == HexChars[(byte % 16) + 1] \o HexChars[(byte \div 16) + 1]

\* binascii.hexlify of one byte: two lowercase digits, high half first
hex(byte) == HexChars[(byte \div 16) + 1] \o HexChars[(byte % 16) + 1]

\* hexlify(encoded).decode("utf-8"), line 389
hexlify(encoded) == join([i \in 1 .. Len(encoded) |-> hex(encoded[i])])

\* lines 388-390
send(data) ==
    Through("send", 390, <<>>,
            execute("mac tx uncnf 1 " \o hexlify(encode_utf8(data)), FALSE, "ok"))

\* lines 85-86: up to the read of the first hardware-EUI query
poll_until_ready == Through("poll_until_ready", 86, <<Feed>>, sys_get_hweui)

\* send_break_condition without the readiness poll
send_break_condition_unpolled ==
    [err |-> "none", frames |-> <<>>, events |-> <<Break>>]

\* lines 137-138
send_break_condition ==
    Through("send_break_condition", 138, <<Break>>, poll_until_ready)

\* line 395
initialize_ttn_otaa == Through("initialize_ttn_otaa", 395, <<>>, sys_get_hweui)

\* lines 396-409: the statement that follows the call the sequence waits in
\* at line pc: the line of the next call, what is done before it, the call.
ttn_next(pc) ==
    CASE pc = 395 -> [pc |-> 397, pre |-> <<Sleep(100)>>, o |-> mac_reset(868)]
      [] pc = 397 -> [pc |-> 398, pre |-> <<>>, o |-> mac_set_deveui(hw_eui)]
      [] pc = 398 -> [pc |-> 399, pre |-> <<>>, o |-> mac_set_appeui(app_eui)]
      [] pc = 399 -> [pc |-> 400, pre |-> <<>>, o |-> mac_set_appkey(app_key)]
      [] pc = 400 -> [pc |-> 401, pre |-> <<>>, o |-> mac_set_pwridx(1)]
      [] pc = 401 -> [pc |-> 402, pre |-> <<>>, o |-> mac_set_dr(5)]
      [] pc = 402 -> [pc |-> 403, pre |-> <<>>, o |-> mac_set_adr(FALSE)]
      [] pc = 403 -> [pc |-> 404, pre |-> <<>>, o |-> mac_set_ar(FALSE)]
      [] pc = 404 -> [pc |-> 405, pre |-> <<>>, o |-> mac_save]
      [] pc = 405 -> [pc |-> 408, pre |-> <<Sleep(3000), Feed>>, o |-> mac_join("otaa")]

(***************************************************************************)
(* State changes shared by the actions.                                    *)
(***************************************************************************)
\* an exception leaves every frame: nothing in the driver catches
Raise(e, events) ==
    /\ stack' = <<>>
    /\ err' = e
    /\ ret' = RetNone
    /\ trace' = trace \o events

\* the running frame returns v
Return(v, events) ==
    /\ stack' = Below
    /\ err' = err
    /\ ret' = v
    /\ trace' = trace \o events

\* the running frame goes on as frame f and makes the call o
Continue(f, pre, o) ==
    /\ trace' = trace \o pre \o o.events
    /\ ret' = ret
    /\ IF o.err # "none"
       THEN stack' = <<>> /\ err' = o.err
       ELSE stack' = Below \o <<f>> \o o.frames /\ err' = err

\* a public call c starts on an idle driver
Start(c, o) ==
    /\ Idle
    /\ call' = c
    /\ trace' = o.events
    /\ ret' = RetNone
    /\ err' = o.err
    /\ stack' = IF o.err # "none" THEN <<>> ELSE o.frames

\* What the channel may return to the read the running frame is about to
\* make.  The two unbounded loops are cut: execute_multiple's loop times out
\* after MaxLoopReads reads, and the module stops answering the loop test of
\* the readiness poll with the sentinel after MaxPolls iterations.
ReadChoices ==
    IF Running("execute_multiple", 218) /\ Top.iter >= MaxLoopReads THEN {None}
    ELSE IF stack # <<>> /\ Top.fn = "execute_multiple" THEN JoinResponses
    ELSE IF /\ Running("execute", 174)
            /\ Len(stack) >= 3
            /\ stack[Len(stack) - 2].fn = "poll_until_ready"
            /\ stack[Len(stack) - 2].pc = 86
            /\ stack[Len(stack) - 2].iter >= MaxPolls
    THEN {r \in Responses : ~Truthy(r) \/ decode_strip(r) # "invalid_param"}
    ELSE Responses

fields == <<constructed, app_eui, app_key, hw_eui, reset_pin>>

\* the level of the reset pin after events, given its level before
PinLevel(events, level) ==
    LET at == {i \in 1 .. Len(events) : events[i].kind = "pin"} IN
    IF at = {} THEN level
    ELSE events[CHOOSE i \in at : \A j \in at : j <= i].data

\* the serial channel as seen from the module's side
module == <<rx, owed, sent>>

(***************************************************************************)
(* Inputs of the public calls.                                             *)
(***************************************************************************)
Eui15 == "012345678901234"
Eui16 == "0123456789012345"
Eui17 == "01234567890123456"
Key31 == "0123456789012345012345678901234"
Key32 == "01234567890123450123456789012345"
Key33 == "012345678901234501234567890123456"

\* the credentials a driver is constructed with: (app_eui, app_key)
Credentials == {<<Eui16, Key32>>, <<"appeui", Key32>>, <<Eui16, "appkey">>}

SleepLengths ==
    { Big(TRUE, <<1>>), Big(FALSE, <<0>>), Big(FALSE, <<9, 9>>),
      Big(FALSE, <<1, 0, 0>>), Big(FALSE, <<1, 0, 1>>),
      Big(FALSE, <<4, 2, 9, 4, 9, 6, 7, 2, 9, 5>>),
      Big(FALSE, <<4, 2, 9, 4, 9, 6, 7, 2, 9, 6>>),
      Big(FALSE, <<4, 2, 9, 4, 9, 6, 7, 2, 9, 7>>),
      Big(FALSE, <<1, 0, 0, 0, 0, 0, 0, 0, 0, 0, 0>>) }

\* the payloads of send, as code points: "", "Hi", "PeterMaffay", a line
\* feed, and one character for each of the 2-, 3- and 4-byte encodings
Payloads ==
    { <<>>,
      <<72, 105>>,
      <<80, 101, 116, 101, 114, 77, 97, 102, 102, 97, 121>>,
      <<10>>,
      <<233>>,
      <<8364>>,
      <<128512>> }

(***************************************************************************)
(* The state after the module is loaded: no driver exists.                 *)
(***************************************************************************)
Init ==
    /\ constructed = FALSE
    /\ app_eui = ""
    /\ app_key = ""
    /\ hw_eui = Unset
    /\ reset_pin = "unset"
    /\ stack = <<>>
    /\ err = "none"
    /\ ret = RetNone
    /\ call = Op0("none")
    /\ trace = <<>>
    /\ rx = <<>>
    /\ owed = <<>>
    /\ sent = 0

(***************************************************************************)
(* Public calls: entry up to the first read.                               *)
(***************************************************************************)
\* RN2483.__init__, lines 67-80
RN2483_init ==
    \E c \in Credentials :
        /\ ~constructed
        /\ Start(CallOf("__init__", c[1], 0, FALSE, <<c[2]>>, NoBig),
                 Through("__init__", 80, reset(500).events, poll_until_ready))
        /\ app_eui' = c[1]
        /\ app_key' = c[2]
        /\ hw_eui' = Unset
        /\ reset_pin' = PinLevel(reset(500).events, reset_pin)
        /\ UNCHANGED constructed
        /\ UNCHANGED module

CallReset ==
    \E wait_in_ms \in {500, 10} :
        /\ constructed
        /\ Start(OpN("reset", wait_in_ms), reset(wait_in_ms))
        /\ reset_pin' = PinLevel(reset(wait_in_ms).events, reset_pin)
        /\ UNCHANGED <<constructed, app_eui, app_key, hw_eui>>
        /\ UNCHANGED module

CallSendBreakCondition ==
    /\ constructed
    /\ Start(Op0("send_break_condition"), send_break_condition)
    /\ UNCHANGED fields
    /\ UNCHANGED module

CallSysSleep ==
    \E length \in SleepLengths :
        /\ constructed
        /\ Start(CallOf("sys_sleep", "", 0, FALSE, <<>>, length), sys_sleep(length))
        /\ UNCHANGED fields
        /\ UNCHANGED module

CallExecute ==
    \E validate \in BOOLEAN, valid \in {"ok", "accepted"} :
        /\ constructed
        /\ Start(CallOf("execute", "test", 0, validate, <<valid>>, NoBig),
               execute("test", validate, valid))
        /\ UNCHANGED fields
        /\ UNCHANGED module

CallExecuteMultiple ==
    \E validate \in BOOLEAN,
       valid \in {<<"ok", "accepted">>, <<"ok">>} :
        /\ constructed
        /\ Start(CallOf("execute_multiple", "mac join otaa", 0, validate, valid, NoBig),
               execute_multiple("mac join otaa", validate, valid))
        /\ UNCHANGED fields
        /\ UNCHANGED module

CallSysGetVer ==
    /\ constructed
    /\ Start(Op0("sys_get_ver"), sys_get_ver)
    /\ UNCHANGED fields
    /\ UNCHANGED module

CallSysGetHweui ==
    /\ constructed
    /\ Start(Op0("sys_get_hweui"), sys_get_hweui)
    /\ UNCHANGED fields
    /\ UNCHANGED module

CallMacReset ==
    \E band \in {868, 15} :
        /\ constructed
        /\ Start(OpN("mac_reset", band), mac_reset(band))
        /\ UNCHANGED fields
        /\ UNCHANGED module

CallMacSetDeveui ==
    \E deveui \in {"deveui", Eui16} :
        /\ constructed
        /\ Start(OpS("mac_set_deveui", deveui), mac_set_deveui(deveui))
        /\ UNCHANGED fields
        /\ UNCHANGED module

CallMacSetAppeui ==
    \E appeui \in {"wrong", Eui15, Eui16, Eui17} :
        /\ constructed
        /\ Start(OpS("mac_set_appeui", appeui), mac_set_appeui(appeui))
        /\ UNCHANGED fields
        /\ UNCHANGED module

CallMacSetAppkey ==
    \E appkey \in {"wrong", Key31, Key32, Key33} :
        /\ constructed
        /\ Start(OpS("mac_set_appkey", appkey), mac_set_appkey(appkey))
        /\ UNCHANGED fields
        /\ UNCHANGED module

CallMacSetPwridx ==
    \E pwrindex \in -1 .. 6 :
        /\ constructed
        /\ Start(OpN("mac_set_pwridx", pwrindex), mac_set_pwridx(pwrindex))
        /\ UNCHANGED fields
        /\ UNCHANGED module

CallMacSetDr ==
    \E datarate \in -1 .. 8 :
        /\ constructed
        /\ Start(OpN("mac_set_dr", datarate), mac_set_dr(datarate))
        /\ UNCHANGED fields
        /\ UNCHANGED module

CallMacSetAdr ==
    \E on \in BOOLEAN :
        /\ constructed
        /\ Start(OpB("mac_set_adr", on), mac_set_adr(on))
        /\ UNCHANGED fields
        /\ UNCHANGED module

CallMacSetAr ==
    \E on \in BOOLEAN :
        /\ constructed
        /\ Start(OpB("mac_set_ar", on), mac_set_ar(on))
        /\ UNCHANGED fields
        /\ UNCHANGED module

CallRadioSetPwr ==
    \E index \in 2 .. 16 :
        /\ constructed
        /\ Start(OpN("radio_set_pwr", index), radio_set_pwr(index))
        /\ UNCHANGED fields
        /\ UNCHANGED module

CallMacSave ==
    /\ constructed
    /\ Start(Op0("mac_save"), mac_save)
    /\ UNCHANGED fields
    /\ UNCHANGED module

CallMacJoin ==
    \E mode \in {"otaa"} :
        /\ constructed
        /\ Start(OpS("mac_join", mode), mac_join(mode))
        /\ UNCHANGED fields
        /\ UNCHANGED module

CallSend ==
    \E data \in Payloads :
        /\ constructed
        /\ Start(CallOf("send", "", 0, FALSE, data, NoBig), send(data))
        /\ UNCHANGED fields
        /\ UNCHANGED module

CallInitializeTtnOtaa ==
    /\ constructed
    /\ Start(Op0("initialize_ttn_otaa"), initialize_ttn_otaa)
    /\ UNCHANGED fields
    /\ UNCHANGED module

(***************************************************************************)
(* Steps of the running call.                                              *)
(***************************************************************************)
\* execute, lines 174-184, given what readline returned
execute_readline_got(response) ==
    /\ Running("execute", 174)
    /\ LET r == execute_result(response, Top.validate, Top.valid[1]) IN
       IF r.err # "none"
       THEN Raise(r.err, <<Readline(response)>>)
       ELSE Return(r.ret, <<Readline(response), Feed>>)
    /\ UNCHANGED <<fields, call>>

\* execute, lines 174-184
execute_readline ==
    \E response \in ReadChoices :
        /\ execute_readline_got(response)
        /\ UNCHANGED module

\* execute_multiple, lines 209-217, given what readline returned
execute_multiple_first_got(response) ==
    /\ Running("execute_multiple", 209)
    /\ IF ~Truthy(response)
       THEN Raise("NoResponse", <<Readline(response)>>)
       ELSE /\ stack' = Below \o
                  <<[Top EXCEPT !.results = <<decode_strip(response)>>,
                                !.pc = 218]>>
            /\ trace' = trace \o <<Readline(response), Feed, Sleep(5000)>>
            /\ UNCHANGED <<ret, err>>
    /\ UNCHANGED <<fields, call>>

\* execute_multiple, lines 209-217
execute_multiple_first ==
    \E response \in ReadChoices :
        /\ execute_multiple_first_got(response)
        /\ UNCHANGED module

\* execute_multiple, lines 218-227, given what readline returned
execute_multiple_loop_got(response) ==
    /\ Running("execute_multiple", 218)
    /\ LET results == append_response(Top.results, response) IN
       IF loop_continues(response)
       THEN /\ stack' = Below \o
                  <<[Top EXCEPT !.results = results, !.iter = @ + 1]>>
            /\ trace' = trace \o <<Readline(response), Feed, Feed, Sleep(5000)>>
            /\ UNCHANGED <<ret, err>>
       ELSE LET r == execute_multiple_result(results, Top.validate, Top.valid) IN
            IF r.err # "none"
            THEN Raise(r.err, <<Readline(response), Feed>>)
            ELSE Return(r.ret, <<Readline(response), Feed>>)
    /\ UNCHANGED <<fields, call>>

\* execute_multiple, lines 218-227
execute_multiple_loop ==
    \E response \in ReadChoices :
        /\ execute_multiple_loop_got(response)
        /\ UNCHANGED module

\* sys_get_hweui returning the answer without caching it
sys_get_hweui_return_uncached ==
    /\ Running("sys_get_hweui", 244)
    /\ Return(ret, <<>>)
    /\ UNCHANGED <<fields, call>>
    /\ UNCHANGED module

\* sys_get_hweui, lines 244-246
sys_get_hweui_return ==
    /\ Running("sys_get_hweui", 244)
    /\ hw_eui' = ret.s
    /\ Return(ret, <<>>)
    /\ UNCHANGED <<constructed, app_eui, app_key, reset_pin, call>>
    /\ UNCHANGED module

\* sys_get_ver, line 236
sys_get_ver_return ==
    /\ Running("sys_get_ver", 236)
    /\ Return(ret, <<>>)
    /\ UNCHANGED <<fields, call>>
    /\ UNCHANGED module

\* the operations that end with their call of execute or execute_multiple
\* and return nothing (lines 255, 264, 279, 294, 311, 328, 338, 348, 365,
\* 370, 379, 390)
Wrappers ==
    { "mac_reset", "mac_set_deveui", "mac_set_appeui", "mac_set_appkey",
      "mac_set_pwridx", "mac_set_dr", "mac_set_adr", "mac_set_ar",
      "radio_set_pwr", "mac_save", "mac_join", "send" }

wrapper_return ==
    /\ stack # <<>>
    /\ Top.fn \in Wrappers
    /\ Return(RetNone, <<>>)
    /\ UNCHANGED <<fields, call>>
    /\ UNCHANGED module

\* the query made once, whatever its answer: no loop
poll_test_once ==
    /\ Running("poll_until_ready", 86)
    /\ stack' = Below \o <<[Top EXCEPT !.pc = 90]>>
    /\ UNCHANGED <<ret, err, trace>>
    /\ UNCHANGED <<fields, call>>
    /\ UNCHANGED module

\* the loop test repeated on the sentinel without a new query
poll_test_spinning ==
    /\ Running("poll_until_ready", 86)
    /\ IF ret.s = "invalid_param"
       THEN UNCHANGED <<stack, ret, err, trace>>
       ELSE /\ stack' = Below \o <<[Top EXCEPT !.pc = 90]>>
            /\ UNCHANGED <<ret, err, trace>>
    /\ UNCHANGED <<fields, call>>
    /\ UNCHANGED module

\* _poll_until_ready, lines 86-88: the loop test on the answer of the query
\* of line 86
poll_test ==
    /\ Running("poll_until_ready", 86)
    /\ IF ret.s = "invalid_param"
       THEN Continue([Top EXCEPT !.pc = 88, !.iter = @ + 1], <<Sleep(10)>>,
                     sys_get_hweui)
       ELSE /\ stack' = Below \o <<[Top EXCEPT !.pc = 90]>>
            /\ UNCHANGED <<ret, err, trace>>
    /\ UNCHANGED <<fields, call>>
    /\ UNCHANGED module

\* _poll_until_ready, lines 88-89 and back to line 86: the answer of the
\* query of line 88 is dropped
poll_body ==
    /\ Running("poll_until_ready", 88)
    /\ Continue([Top EXCEPT !.pc = 86], <<Feed>>, sys_get_hweui)
    /\ UNCHANGED <<fields, call>>
    /\ UNCHANGED module

\* _poll_until_ready, lines 90-91
poll_read ==
    \E response \in ReadChoices :
        /\ Running("poll_until_ready", 90)
        /\ Return(RetNone, <<Read(response), Feed>>)
        /\ UNCHANGED <<fields, call>>
        /\ UNCHANGED module

\* send_break_condition, line 138
send_break_condition_return ==
    /\ Running("send_break_condition", 138)
    /\ Return(RetNone, <<>>)
    /\ UNCHANGED <<fields, call>>
    /\ UNCHANGED module

\* __init__, line 80: the constructor returns, the driver exists
RN2483_init_return ==
    /\ Running("__init__", 80)
    /\ constructed' = TRUE
    /\ Return(RetNone, <<>>)
    /\ UNCHANGED <<app_eui, app_key, hw_eui, reset_pin, call>>
    /\ UNCHANGED module

\* initialize_ttn_otaa, lines 396-408
initialize_ttn_otaa_next ==
    /\ stack # <<>>
    /\ Top.fn = "initialize_ttn_otaa"
    /\ Top.pc # 408
    /\ LET nx == ttn_next(Top.pc) IN
       Continue([Top EXCEPT !.pc = nx.pc], nx.pre, nx.o)
    /\ UNCHANGED <<fields, call>>
    /\ UNCHANGED module

\* initialize_ttn_otaa, line 409
initialize_ttn_otaa_return ==
    /\ Running("initialize_ttn_otaa", 408)
    /\ Return(RetNone, <<Feed>>)
    /\ UNCHANGED <<fields, call>>
    /\ UNCHANGED module

Next ==
    \/ RN2483_init
    \/ CallReset
    \/ CallSendBreakCondition
    \/ CallSysSleep
    \/ CallExecute
    \/ CallExecuteMultiple
    \/ CallSysGetVer
    \/ CallSysGetHweui
    \/ CallMacReset
    \/ CallMacSetDeveui
    \/ CallMacSetAppeui
    \/ CallMacSetAppkey
    \/ CallMacSetPwridx
    \/ CallMacSetDr
    \/ CallMacSetAdr
    \/ CallMacSetAr
    \/ CallRadioSetPwr
    \/ CallMacSave
    \/ CallMacJoin
    \/ CallSend
    \/ CallInitializeTtnOtaa
    \/ execute_readline
    \/ execute_multiple_first
    \/ execute_multiple_loop
    \/ sys_get_hweui_return
    \/ sys_get_ver_return
    \/ wrapper_return
    \/ poll_test
    \/ poll_body
    \/ poll_read
    \/ send_break_condition_return
    \/ RN2483_init_return
    \/ initialize_ttn_otaa_next
    \/ initialize_ttn_otaa_return

Spec == Init /\ [][Next]_vars

(***************************************************************************)
(* The readiness poll with its scheduling.  The driver is one thread of    *)
(* straight-line code whose reads return at their timeout at the latest,   *)
(* so a call that was started keeps taking steps until it returns or       *)
(* raises; nothing obliges the caller to start a call.  The module answers *)
(* the loop test with the sentinel during at most MaxPolls iterations      *)
(* (ReadChoices): from then on every answer is another line or no data.    *)
(***************************************************************************)
PollSteps ==
    \/ execute_readline
    \/ sys_get_hweui_return
    \/ poll_test
    \/ poll_body
    \/ poll_read
    \/ send_break_condition_return
    \/ RN2483_init_return

NextPoll ==
    \/ RN2483_init
    \/ CallSendBreakCondition
    \/ execute_readline
    \/ sys_get_hweui_return
    \/ poll_test
    \/ poll_body
    \/ poll_read
    \/ send_break_condition_return
    \/ RN2483_init_return

SpecPoll == Init /\ [][NextPoll]_vars /\ WF_vars(PollSteps)

(***************************************************************************)
(* The driver on a module that queues its answers.  The module answers     *)
(* each command line with one or more lines, at any time after it got the  *)
(* command; the UART keeps the lines it received until they are read, and  *)
(* readline returns the oldest one, or None at its timeout when it holds   *)
(* none.  Every line is kept with the number of the command it answers.    *)
(***************************************************************************)
\* command lines written in one behaviour
MaxCommands == 3

OkLine == B(<<"ok", "\r", "\n">>)

\* what the module may answer to one command
Answers ==
    { <<OkLine>>,
      <<OkLine, B(<<"accepted", "\r", "\n">>)>>,
      <<B(<<"invalid_param", "\r", "\n">>)>> }

\* uart.readline(): the oldest line held, None at the timeout
uart_readline == IF rx = <<>> THEN None ELSE rx[1][1]

\* the line returned leaves the buffer
uart_taken ==
    /\ rx' = IF rx = <<>> THEN rx ELSE Tail(rx)
    /\ UNCHANGED <<owed, sent>>

\* uart.write(line): the module gets command number sent + 1 and will
\* answer it with the lines of answer
uart_write(answer) ==
    /\ sent' = sent + 1
    /\ owed' = owed \o [i \in 1 .. Len(answer) |-> <<answer[i], sent + 1>>]
    /\ rx' = rx

\* the public calls made on this module: each writes one command line
QueuedCalls ==
    { <<CallOf("sys_sleep", "", 0, FALSE, <<>>, SleepMin), sys_sleep(SleepMin)>>,
      <<Op0("sys_get_ver"), sys_get_ver>>,
      <<Op0("mac_save"), mac_save>>,
      <<CallOf("send", "", 0, FALSE, <<72, 105>>, NoBig), send(<<72, 105>>)>>,
      <<OpS("mac_join", "otaa"), mac_join("otaa")>> }

\* the state after RN2483(...) with valid credentials returned, the module
\* having answered the first query of the poll with its EUI
InitQueued ==
    /\ constructed = TRUE
    /\ app_eui = Eui16
    /\ app_key = Key32
    /\ hw_eui = "example_hw_eui"
    /\ reset_pin = "high"
    /\ stack = <<>>
    /\ err = "none"
    /\ ret = RetNone
    /\ call = CallOf("__init__", Eui16, 0, FALSE, <<Key32>>, NoBig)
    /\ trace = reset(500).events \o poll_until_ready.events
                  \o <<Readline(B(<<"example_hw_eui">>)), Feed, Read(None), Feed>>
    /\ rx = <<>>
    /\ owed = <<>>
    /\ sent = 0

CallQueued ==
    \E c \in QueuedCalls, answer \in Answers :
        /\ constructed
        /\ sent < MaxCommands
        /\ Start(c[1], c[2])
        /\ uart_write(answer)
        /\ UNCHANGED fields

\* the module sends the next line it owes
module_answers ==
    /\ owed # <<>>
    /\ rx' = Append(rx, Head(owed))
    /\ owed' = Tail(owed)
    /\ UNCHANGED <<fields, stack, err, ret, call, trace, sent>>

execute_readline_queued ==
    /\ execute_readline_got(uart_readline)
    /\ uart_taken

execute_multiple_first_queued ==
    /\ execute_multiple_first_got(uart_readline)
    /\ uart_taken

execute_multiple_loop_queued ==
    /\ execute_multiple_loop_got(uart_readline)
    /\ uart_taken

NextQueued ==
    \/ CallQueued
    \/ module_answers
    \/ execute_readline_queued
    \/ execute_multiple_first_queued
    \/ execute_multiple_loop_queued
    \/ sys_get_ver_return
    \/ wrapper_return

SpecQueued == InitQueued /\ [][NextQueued]_vars

TypeOK ==
    /\ constructed \in BOOLEAN
    /\ err \in {"none", "InvalidInput", "NoResponse", "InvalidResponse"}
    /\ reset_pin \in {"unset", "high", "low"}
    /\ (err # "none" => stack = <<>>)
    /\ (~constructed /\ stack # <<>> => stack[1].fn = "__init__")

(***************************************************************************)
(* Observations on the trace of the running or last call.                  *)
(***************************************************************************)
IsWrite(e) == e.kind = "write"
IsReadline(e) == e.kind = "readline"

RECURSIVE DataOf(_)
DataOf(evs) == IF evs = <<>> THEN <<>> ELSE <<Head(evs).data>> \o DataOf(Tail(evs))

RECURSIVE RespOf(_)
RespOf(evs) == IF evs = <<>> THEN <<>> ELSE <<Head(evs).resp>> \o RespOf(Tail(evs))

\* the lines written, in order
Writes == DataOf(SelectSeq(trace, IsWrite))
\* what the calls of readline returned, in order
Readlines == RespOf(SelectSeq(trace, IsReadline))

NoData(response) == response.none \/ response.bytes = <<>>

\* the decoded lines among read results, in order
RECURSIVE Lines(_)
Lines(rs) ==
    IF rs = <<>> THEN <<>>
    ELSE IF NoData(Head(rs)) THEN Lines(Tail(rs))
    ELSE <<decode_strip(Head(rs))>> \o Lines(Tail(rs))

\* the decoded lines read before the first read without data
RECURSIVE LinesToNoData(_)
LinesToNoData(rs) ==
    IF rs = <<>> \/ NoData(Head(rs)) THEN <<>>
    ELSE <<decode_strip(Head(rs))>> \o LinesToNoData(Tail(rs))

Finished(op) == Idle /\ call.op = op

(***************************************************************************)
(* C1.  execute: a read without data (None or b"") fails with NoResponse;  *)
(* otherwise the call fails with InvalidResponse exactly when validate is  *)
(* set and the decoded, stripped line differs from the expected one, and   *)
(* in every other case it returns the decoded line.                        *)
(***************************************************************************)
C1_ExecuteOutcome ==
    Finished("execute") =>
        /\ Len(Readlines) = 1
        /\ LET response == Readlines[1]
               decoded == decode_strip(response)
           IN  IF NoData(response) THEN err = "NoResponse"
               ELSE /\ (err = "InvalidResponse") <=>
                           (call.flag /\ decoded # call.items[1])
                    /\ err # "InvalidResponse" =>
                           (err = "none" /\ ret = RetStr(decoded))

\* an unvalidated execute returned a line that is not the expected one
C1_Witness ==
    /\ Finished("execute")
    /\ ~call.flag
    /\ err = "none"
    /\ ret.s = "invalid_param"
    /\ call.items = <<"ok">>

(***************************************************************************)
(* C2.  execute_multiple: NoResponse iff the first read has no data;       *)
(* otherwise the result is the decoded lines read up to the first read     *)
(* without data, and InvalidResponse is raised exactly when validate is    *)
(* set and that sequence differs from the expected one.                    *)
(***************************************************************************)
C2_ExecuteMultipleOutcome ==
    Finished("execute_multiple") =>
        LET lines == LinesToNoData(Readlines) IN
        /\ (err = "NoResponse") <=> NoData(Readlines[1])
        /\ ~NoData(Readlines[1]) =>
              /\ (err = "InvalidResponse") <=> (call.flag /\ lines # call.items)
              /\ err = "none" => ret.list = lines

(***************************************************************************)
(* C3.  execute_multiple: after the first line, the loop stops at the      *)
(* first read without data (None or b""): no settle delay and no read      *)
(* follows that read.                                                      *)
(***************************************************************************)
C3_LoopStopsOnNoData ==
    call.op = "execute_multiple" =>
        \A i \in 1 .. Len(trace) :
            (IsReadline(trace[i]) /\ NoData(trace[i].resp)) =>
                \A j \in (i + 1) .. Len(trace) :
                    trace[j].kind \notin {"sleep", "readline"}

(***************************************************************************)
(* The join-and-configure sequence as documented.                          *)
(***************************************************************************)
JoinLine == "mac join otaa\r\n"

\* the eleven command lines, for the hardware EUI the module answered
TtnCommands(eui) ==
    << "sys get hweui\r\n",
       "mac reset 868\r\n",
       "mac set deveui " \o eui \o "\r\n",
       "mac set appeui " \o app_eui \o "\r\n",
       "mac set appkey " \o app_key \o "\r\n",
       "mac set pwridx 1\r\n",
       "mac set dr 5\r\n",
       "mac set adr off\r\n",
       "mac set ar off\r\n",
       "mac save\r\n",
       JoinLine >>

Prefix(a, b) == Len(a) <= Len(b) /\ a = SubSeq(b, 1, Len(a))

\* the number of lines written up to event i: the step event i belongs to
StepOf(i) == Len(SelectSeq(SubSeq(trace, 1, i), IsWrite))
\* the index in the trace of the k-th write and of the k-th readline
WriteIdx(k) == CHOOSE i \in 1 .. Len(trace) : IsWrite(trace[i]) /\ StepOf(i) = k
ReadIdx(k) ==
    CHOOSE i \in 1 .. Len(trace) :
        /\ IsReadline(trace[i])
        /\ Len(SelectSeq(SubSeq(trace, 1, i), IsReadline)) = k

\* the hardware EUI answered to the first query of the running call
EuiRead == IF Readlines = <<>> THEN "" ELSE decode_strip(Readlines[1])

(***************************************************************************)
(* C4.  The join succeeds iff the lines read after `mac join otaa` was     *)
(* written are exactly ok, accepted; any other lines (ok, denied among     *)
(* them) raise InvalidResponse, no data on the first read raises           *)
(* NoResponse.  mac_join alone and as the last step of the sequence.       *)
(***************************************************************************)
C4_JoinOutcome ==
    ( /\ Idle
      /\ call.op \in {"mac_join", "initialize_ttn_otaa"}
      /\ \E w \in 1 .. Len(trace) : trace[w] = Write(JoinLine) ) =>
        LET w == CHOOSE i \in 1 .. Len(trace) : trace[i] = Write(JoinLine)
            after == RespOf(SelectSeq(SubSeq(trace, w + 1, Len(trace)), IsReadline))
        IN  IF NoData(after[1]) THEN err = "NoResponse"
            ELSE /\ (err = "none") <=> (Lines(after) = <<"ok", "accepted">>)
                 /\ err # "none" => err = "InvalidResponse"

\* mac_join read ok, accepted and returned
C4_Witness ==
    /\ Finished("mac_join")
    /\ err = "none"
    /\ Lines(Readlines) = <<"ok", "accepted">>

(***************************************************************************)
(* C5.  A sequence that completes wrote the eleven command lines, each     *)
(* once and in order, the device EUI being the answer to its own first     *)
(* query; it slept after the EUI query, slept 3000 and fed the watchdog    *)
(* between mac save and mac join, and fed the watchdog after the join.     *)
(***************************************************************************)
C5_JoinSequenceCommands ==
    (Finished("initialize_ttn_otaa") /\ err = "none") =>
        /\ Writes = TtnCommands(EuiRead)
        /\ \E i \in 1 .. Len(trace) :
              /\ ReadIdx(1) < i
              /\ i < WriteIdx(2)
              /\ trace[i].kind = "sleep"
        /\ \E i \in 1 .. Len(trace) - 1 :
              /\ ReadIdx(10) < i
              /\ i + 1 < WriteIdx(11)
              /\ trace[i] = Sleep(3000)
              /\ trace[i + 1] = Feed
        /\ LET n == Len(trace) IN
              /\ IsReadline(trace[n - 2])
              /\ trace[n - 1] = Feed
              /\ trace[n] = Feed

\* the sequence completed with the hardware EUI it read itself
C5_Witness ==
    /\ Finished("initialize_ttn_otaa")
    /\ err = "none"
    /\ Len(Writes) = 11
    /\ hw_eui = "example_hw_eui"

(***************************************************************************)
(* C6.  In the sequence, a failing step ends the call: nothing is written  *)
(* or read after the failing read, the lines written are a prefix of the   *)
(* documented ones (no later command, no repetition, nothing undone), and  *)
(* the error is the one of the failing step.                               *)
(***************************************************************************)
\* event i is the read of a step before the join and that step fails on it
FailingRead(i) ==
    /\ IsReadline(trace[i])
    /\ StepOf(i) <= 10
    /\ \/ NoData(trace[i].resp)
       \/ StepOf(i) >= 3 /\ decode_strip(trace[i].resp) # "ok"

C6_JoinSequenceAborts ==
    call.op = "initialize_ttn_otaa" =>
        /\ Prefix(Writes, TtnCommands(EuiRead))
        /\ \A i \in 1 .. Len(trace) :
              FailingRead(i) =>
                  /\ i = Len(trace)
                  /\ Idle
                  /\ err = IF NoData(trace[i].resp) THEN "NoResponse"
                           ELSE "InvalidResponse"
        /\ Len(Writes) <= 10 =>
              /\ Len(Readlines) <= Len(Writes)
              /\ Len(Readlines) >= Len(Writes) - 1
        /\ (Idle /\ err = "InvalidInput") =>
              /\ trace[Len(trace)] = Feed
              /\ Len(Readlines) = Len(Writes)
              /\ \/ Len(Writes) = 3 /\ Len(app_eui) # 16
                 \/ Len(Writes) = 4 /\ Len(app_key) # 32
        /\ (Idle /\ err \in {"NoResponse", "InvalidResponse"} /\ Len(Writes) <= 10) =>
              FailingRead(Len(trace))
        /\ (Idle /\ err = "none") => Len(Writes) = 11

\* the sequence stopped at the answer to mac set pwridx
C6_Witness ==
    /\ Finished("initialize_ttn_otaa")
    /\ err = "InvalidResponse"
    /\ Len(Writes) = 6

(***************************************************************************)
(* The operations with a documented precondition.                          *)
(***************************************************************************)
CheckedOps ==
    {"mac_set_appeui", "mac_set_appkey", "mac_set_pwridx", "mac_set_dr",
     "radio_set_pwr"}

\* the decimal numerals of the arguments the calls are made with
Numeral(int) ==
    <<"0", "1", "2", "3", "4", "5", "6", "7", "8", "9", "10", "11", "12",
      "13", "14", "15", "16">>[int + 1]

\* the documented precondition of call c
Precondition(c) ==
    CASE c.op = "mac_set_appeui" -> Len(c.text) = 16
      [] c.op = "mac_set_appkey" -> Len(c.text) = 32
      [] c.op = "mac_set_pwridx" -> c.int \in 0 .. 5
      [] c.op = "mac_set_dr"     -> c.int \in 0 .. 7
      [] c.op = "radio_set_pwr"  -> c.int \in 3 .. 15

\* the documented command line of call c
Documented(c) ==
    CASE c.op = "mac_set_appeui" -> "mac set appeui " \o c.text \o "\r\n"
      [] c.op = "mac_set_appkey" -> "mac set appkey " \o c.text \o "\r\n"
      [] c.op = "mac_set_pwridx" -> "mac set pwridx " \o Numeral(c.int) \o "\r\n"
      [] c.op = "mac_set_dr"     -> "mac set dr " \o Numeral(c.int) \o "\r\n"
      [] c.op = "radio_set_pwr"  -> "radio set pwr " \o Numeral(c.int) \o "\r\n"

\* the call validated the one line it read against ok
ValidatedAgainstOk ==
    /\ Len(Readlines) = 1
    /\ IF NoData(Readlines[1]) THEN err = "NoResponse"
       ELSE IF decode_strip(Readlines[1]) = "ok" THEN err = "none"
       ELSE err = "InvalidResponse"

CheckedCall ==
    IF ~Precondition(call)
    THEN Idle /\ err = "InvalidInput" /\ trace = <<>>
    ELSE /\ Writes = <<Documented(call)>>
         /\ Idle => ValidatedAgainstOk

(***************************************************************************)
(* C7.  An operation with a documented precondition, called with an        *)
(* argument that violates it, raises InvalidInput, writes nothing, reads   *)
(* nothing and changes no field of the driver; called with an argument     *)
(* that satisfies it (bounds included) it writes the documented line once  *)
(* and validates the response against ok.                                  *)
(***************************************************************************)
C7_Preconditions ==
    [][ call'.op \in CheckedOps =>
            /\ CheckedCall'
            /\ ~Precondition(call') => UNCHANGED fields ]_vars

\* radio_set_pwr accepted its upper bound and the module answered ok
C7_Witness ==
    /\ Finished("radio_set_pwr")
    /\ call.int = 15
    /\ err = "none"
    /\ Writes = <<"radio set pwr 15\r\n">>

(***************************************************************************)
(* C8.  sys_sleep(ms) with 100 <= ms <= 4294967296 writes the one line     *)
(* `sys sleep {ms}`, reads nothing and raises nothing; with ms outside     *)
(* the range it raises InvalidInput and writes nothing.                    *)
(***************************************************************************)
\* 100 <= b <= 4294967296, on the digits of b
InSleepRange(b) ==
    /\ ~b.neg
    /\ Len(b.digits) >= 3
    /\ Len(b.digits) <= 10
    /\ Len(b.digits) = 10 => ~DigitsLess(<<4, 2, 9, 4, 9, 6, 7, 2, 9, 6>>, b.digits)

C8_SysSleep ==
    call.op = "sys_sleep" =>
        /\ Idle
        /\ \A i \in 1 .. Len(trace) : trace[i].kind \notin {"readline", "read"}
        /\ IF InSleepRange(call.big)
           THEN /\ err = "none"
                /\ Writes = <<"sys sleep " \o DigitsStr(call.big.digits) \o "\r\n">>
           ELSE /\ err = "InvalidInput"
                /\ Writes = <<>>

\* sys_sleep accepted its upper bound
C8_Witness ==
    /\ Finished("sys_sleep")
    /\ err = "none"
    /\ Writes = <<"sys sleep 4294967296\r\n">>

(***************************************************************************)
(* C9 as stated.  A driver given an application EUI of length other than   *)
(* 16 or an application key of length other than 32 raises InvalidInput    *)
(* before the first command line is written, in the constructor as well    *)
(* as in the join-and-configure sequence.                                  *)
(***************************************************************************)
BadCredentials == Len(app_eui) # 16 \/ Len(app_key) # 32

C9_RejectedBeforeAnyCommand ==
    (BadCredentials /\ call.op \in {"__init__", "initialize_ttn_otaa"}) =>
        /\ Writes = <<>>
        /\ Idle
        /\ err = "InvalidInput"

(***************************************************************************)
(* C9 amended.  A credential of invalid length is rejected before the      *)
(* command that carries it is written: the constructor checks nothing,     *)
(* and the sequence of a driver with such a credential raises InvalidInput *)
(* at the step that would send it, after the commands of the earlier       *)
(* steps were written and answered; neither the line carrying the invalid  *)
(* credential nor any later command is written.                            *)
(***************************************************************************)
\* the number of commands the sequence may write with the credentials held
SentBeforeRejection == IF Len(app_eui) # 16 THEN 3 ELSE 4

C9_RejectedBeforeItsCommand ==
    (BadCredentials /\ call.op = "initialize_ttn_otaa") =>
        /\ constructed
        /\ Len(Writes) <= SentBeforeRejection
        /\ Prefix(Writes, TtnCommands(EuiRead))
        /\ Idle => err # "none"
        /\ (Idle /\ ~FailingRead(Len(trace))) =>
              /\ err = "InvalidInput"
              /\ Len(Writes) = SentBeforeRejection
              /\ Len(Readlines) = SentBeforeRejection

\* the sequence of a driver with a short key stopped before mac set appkey
C9_Witness ==
    /\ Finished("initialize_ttn_otaa")
    /\ constructed
    /\ Len(app_key) # 32
    /\ err = "InvalidInput"
    /\ Writes[Len(Writes)] = "mac set appeui " \o app_eui \o "\r\n"

(***************************************************************************)
(* C10.  The readiness poll returns right after the first answer that is   *)
(* not the sentinel: no query is written after that answer, and the        *)
(* cached hardware EUI is that answer.                                     *)
(***************************************************************************)
\* event i is an answer to a hardware-EUI query other than the sentinel
RealAnswer(i) ==
    /\ IsReadline(trace[i])
    /\ ~NoData(trace[i].resp)
    /\ decode_strip(trace[i].resp) # "invalid_param"

C10_PollStopsAtFirstAnswer ==
    call.op \in {"__init__", "send_break_condition"} =>
        \A i \in 1 .. Len(trace) :
            RealAnswer(i) =>
                /\ \A j \in (i + 1) .. Len(trace) : ~IsWrite(trace[j])
                /\ (Idle /\ err = "none") => hw_eui = decode_strip(trace[i].resp)

(***************************************************************************)
(* C11 as stated.  The readiness poll follows construction, every reset    *)
(* and every break: a call of reset (by the constructor or by the caller)  *)
(* or of send_break_condition that returns has run the readiness poll to   *)
(* its end after the pulse or the break.                                   *)
(***************************************************************************)
IsPulse(e) == e.kind \in {"pin", "break"}
HweuiQuery == "sys get hweui\r\n"

\* the trace ends with a readiness poll run to its end: a query written
\* after the last pulse or break, answered with something other than the
\* sentinel, then the drain of the channel and the feed of lines 90-91
PollCompleted ==
    /\ Len(trace) >= 2
    /\ trace[Len(trace) - 1].kind = "read"
    /\ trace[Len(trace)] = Feed
    /\ \E i \in 1 .. Len(trace) :
          /\ IsWrite(trace[i])
          /\ trace[i].data = HweuiQuery
          /\ \A j \in i .. Len(trace) : ~IsPulse(trace[j])
          /\ \E k \in (i + 1) .. Len(trace) :
                /\ RealAnswer(k)
                /\ \A j \in (k + 1) .. Len(trace) : ~IsReadline(trace[j])

C11_PollAfterResetAndBreak ==
    (Idle /\ err = "none"
          /\ call.op \in {"__init__", "reset", "send_break_condition"}) =>
        PollCompleted

(***************************************************************************)
(* C11 amended.  The readiness poll follows the reset of the constructor   *)
(* and the break of send_break_condition: when either returns, the poll    *)
(* ran to its end after the pulse or break, the only command written was   *)
(* the hardware-EUI query, and a constructor that does not return leaves   *)
(* no driver.  reset called by the caller only pulses the line: it returns *)
(* without having written or read anything.                                *)
(***************************************************************************)
C11_PollAfterConstructionAndBreak ==
    /\ call.op \in {"__init__", "send_break_condition"} =>
          /\ (Idle /\ err = "none") => PollCompleted
          /\ \A i \in 1 .. Len(trace) :
                IsWrite(trace[i]) =>
                    /\ trace[i].data = HweuiQuery
                    /\ \A j \in i .. Len(trace) : ~IsPulse(trace[j])
          /\ (call.op = "__init__" /\ ~(Idle /\ err = "none")) => ~constructed
    /\ Finished("reset") =>
          /\ err = "none"
          /\ \A i \in 1 .. Len(trace) :
                trace[i].kind \notin {"write", "readline", "read"}

\* a break was followed by a poll that saw the sentinel once
C11_Witness ==
    /\ Finished("send_break_condition")
    /\ err = "none"
    /\ PollCompleted
    /\ Len(Writes) = 3
    /\ trace[1] = Break

(***************************************************************************)
(* C12.  On a module that queues its answers and may answer late, every    *)
(* line that execute or execute_multiple reads answers the command written *)
(* by the same call, which is the last command written: a line taken from  *)
(* the receive buffer carries the number of the last command.              *)
(***************************************************************************)
C12_ReadsAttributed ==
    [][ (rx # <<>> /\ rx' = Tail(rx)) => rx[1][2] = sent ]_vars

\* the state InitQueued starts from is a state of the driver
InitQueuedReached ==
    /\ constructed /\ Idle /\ err = "none" /\ ret = RetNone
    /\ app_eui = Eui16 /\ app_key = Key32 /\ hw_eui = "example_hw_eui"
    /\ call.op = "__init__"
    /\ trace = reset(500).events \o poll_until_ready.events
                  \o <<Readline(B(<<"example_hw_eui">>)), Feed, Read(None), Feed>>

(***************************************************************************)
(* C13.  The watchdog is fed at every blocking-wait boundary: in the trace *)
(* of every operation, between two blocking waits (a timed sleep, a        *)
(* readline or a read) there is a feed; in particular the read of each     *)
(* iteration of execute_multiple's loop is separated by a feed from the    *)
(* settle delay before it.                                                 *)
(***************************************************************************)
IsWaitOrFeed(e) == e.kind \in {"sleep", "readline", "read", "feed"}

\* the blocking waits and the feeds of the trace, in order
WaitsAndFeeds == SelectSeq(trace, IsWaitOrFeed)

C13_FeedBetweenWaits ==
    \A i \in 1 .. (Len(WaitsAndFeeds) - 1) :
        WaitsAndFeeds[i] = Feed \/ WaitsAndFeeds[i + 1] = Feed

(***************************************************************************)
(* C14.  send(data) writes exactly one line, `mac tx uncnf 1 ` followed by *)
(* the lowercase hexadecimal digits of the UTF-8 bytes of data and the     *)
(* line terminator, reads one line, fails with NoResponse when that read   *)
(* has no data and accepts any other line without validation.              *)
(***************************************************************************)
\* the encodings of the payloads, written out
ReferenceHex(data) ==
    CASE data = <<>> -> ""
      [] data = <<72, 105>> -> "4869"
      [] data = <<80, 101, 116, 101, 114, 77, 97, 102, 102, 97, 121>> ->
             "50657465724d6166666179"
      [] data = <<10>> -> "0a"
      [] data = <<233>> -> "c3a9"
      [] data = <<8364>> -> "e282ac"
      [] data = <<128512>> -> "f09f9880"

C14_SendLine ==
    call.op = "send" =>
        /\ Writes = <<"mac tx uncnf 1 " \o ReferenceHex(call.items) \o "\r\n">>
        /\ Len(Readlines) <= 1
        /\ Idle =>
              /\ Len(Readlines) = 1
              /\ err = IF NoData(Readlines[1]) THEN "NoResponse" ELSE "none"
              /\ ret = RetNone

\* a payload of one four-byte character was sent and the module's error
\* line was accepted as the answer
C14_Witness ==
    /\ Finished("send")
    /\ call.items = <<128512>>
    /\ err = "none"
    /\ Writes = <<"mac tx uncnf 1 f09f9880\r\n">>
    /\ decode_strip(Readlines[1]) = "invalid_param"

(***************************************************************************)
(* C15 as stated.  Once a command line is written the driver reads the     *)
(* channel at least once before it writes another command line or returns  *)
(* to the caller.                                                          *)
(***************************************************************************)
IsWriteOrRead(e) == e.kind \in {"write", "readline", "read"}

\* the writes and the reads of the trace, in order
WritesAndReads == SelectSeq(trace, IsWriteOrRead)

\* no command line is written right after another one
ReadBetweenWrites ==
    \A i \in 1 .. (Len(WritesAndReads) - 1) :
        ~(IsWrite(WritesAndReads[i]) /\ IsWrite(WritesAndReads[i + 1]))

\* the call did not end on a write
ReadAfterLastWrite ==
    WritesAndReads = <<>> \/ ~IsWrite(WritesAndReads[Len(WritesAndReads)])

C15_ReadAfterEveryWrite ==
    /\ ReadBetweenWrites
    /\ Idle => ReadAfterLastWrite

(***************************************************************************)
(* C15 amended.  Every operation but sys_sleep reads the channel at least  *)
(* once after each command line it writes, before it writes another line   *)
(* or returns to the caller; sys_sleep writes its line and returns without *)
(* reading.                                                                *)
(***************************************************************************)
C15_ReadAfterEveryWriteButSleep ==
    /\ ReadBetweenWrites
    /\ (Idle /\ call.op # "sys_sleep") => ReadAfterLastWrite
    /\ (Finished("sys_sleep") /\ err = "none") =>
          /\ Len(WritesAndReads) = 1
          /\ IsWrite(WritesAndReads[1])

\* the join sequence ran to its end: eleven commands, each one read
C15_Witness ==
    /\ Finished("initialize_ttn_otaa")
    /\ err = "none"
    /\ Len(Writes) = 11
    /\ Len(Readlines) >= 11
    /\ ReadAfterLastWrite

(***************************************************************************)
(* C16.  No internal retry: a call of execute or execute_multiple writes   *)
(* its command exactly once whatever the outcome and never pulses the      *)
(* reset line; a call (of any operation) that ended with NoResponse or     *)
(* InvalidResponse did nothing but feed the watchdog after the read that   *)
(* decided the error, and the error is the caller's outcome.               *)
(***************************************************************************)
\* only feeds follow event i of the trace
OnlyFeedsAfter(i) == \A j \in (i + 1) .. Len(trace) : trace[j] = Feed

\* the position of the last readline of the trace (0 if there is none)
LastReadline ==
    LET at == {i \in 1 .. Len(trace) : IsReadline(trace[i])} IN
    IF at = {} THEN 0 ELSE CHOOSE i \in at : \A j \in at : j <= i

C16_NoRetry ==
    /\ call.op \in {"execute", "execute_multiple"} =>
          /\ Writes = <<Line(call.text)>>
          /\ \A i \in 1 .. Len(trace) : ~IsPulse(trace[i])
          /\ (Idle /\ err = "NoResponse") =>
                /\ Len(Readlines) = 1
                /\ LastReadline = Len(trace)
    /\ (Idle /\ err \in {"NoResponse", "InvalidResponse"}) =>
          /\ LastReadline > 0
          /\ OnlyFeedsAfter(LastReadline)
          /\ err = "NoResponse" => ~Truthy(trace[LastReadline].resp)
          /\ stack = <<>>
          /\ ret = RetNone

\* execute_multiple read two lines and the end of the answer, then failed
\* validation
C16_Witness ==
    /\ Finished("execute_multiple")
    /\ err = "InvalidResponse"
    /\ Len(Readlines) = 3
    /\ Writes = <<"mac join otaa\r\n">>

(***************************************************************************)
(* C17.  The readiness poll loops on the sentinel only: a hardware-EUI     *)
(* query of the poll whose read has no data (None or b"") ends the poll,   *)
(* and the constructor or send_break_condition running it, with            *)
(* NoResponse at that read; no query, sleep or read follows, and a         *)
(* constructor that failed this way leaves no driver.                      *)
(***************************************************************************)
C17_PollFailsOnNoResponse ==
    call.op \in {"__init__", "send_break_condition"} =>
        \A i \in 1 .. Len(trace) :
            (IsReadline(trace[i]) /\ NoData(trace[i].resp)) =>
                /\ i = Len(trace)
                /\ Idle
                /\ err = "NoResponse"
                /\ call.op = "__init__" => ~constructed

\* the constructor failed on the query that followed a sentinel answer
C17_Witness ==
    /\ Finished("__init__")
    /\ err = "NoResponse"
    /\ ~constructed
    /\ Len(Readlines) = 2
    /\ decode_strip(Readlines[1]) = "invalid_param"
    /\ Readlines[2] = B(<<>>)

(***************************************************************************)
(* C18.  Liveness of the readiness poll: the loop has no counter, and once *)
(* the module stops answering with the sentinel a poll that runs (in the   *)
(* constructor or in send_break_condition) eventually ends; it ends either *)
(* by returning, having run to its end, or with NoResponse.                *)
(***************************************************************************)
PollRunning == call.op \in {"__init__", "send_break_condition"} /\ ~Idle
PollEnded == call.op \in {"__init__", "send_break_condition"} /\ Idle

C18_PollEnds ==
    /\ PollRunning ~> PollEnded
    /\ [](PollEnded => ((err = "none" /\ PollCompleted) \/ err = "NoResponse"))

\* the poll returned after the module answered every loop test it could
\* with the sentinel: one query per test and one per loop body
C18_Witness ==
    /\ PollEnded
    /\ err = "none"
    /\ PollCompleted
    /\ Len(Writes) = 2 * MaxPolls + 1

(***************************************************************************)
(* C19.  The cached hardware EUI changes exactly when a hardware-EUI query *)
(* succeeds (called directly, by the readiness poll or by the join         *)
(* sequence) and then becomes the decoded line just read; a query that     *)
(* fails and every other step of every operation leave it as it was.  The  *)
(* constructor starts a new driver, which has no cached value yet.         *)
(***************************************************************************)
\* the query got its answer from execute and is about to return
QueryAnswered == Running("sys_get_hweui", 244)

\* the step enters the constructor of a new driver
NewDriver == ~constructed /\ Idle /\ ~Idle'

C19_HweuiCache ==
    [][ /\ QueryAnswered =>
              hw_eui' = decode_strip(trace[LastReadline].resp)
        /\ (~QueryAnswered /\ ~NewDriver) => hw_eui' = hw_eui
        /\ NewDriver => hw_eui' = Unset ]_vars

\* a direct query cached its answer
C19_Witness ==
    /\ Finished("sys_get_hweui")
    /\ err = "none"
    /\ hw_eui = "ok"
    /\ ret = RetStr("ok")
    /\ decode_strip(Readlines[1]) = "ok"

(***************************************************************************)
(* C20.  reset(pulse_duration) drives the reset line high, low, high in    *)
(* that order, holds each level for pulse_duration and feeds the watchdog  *)
(* after each hold; when it returns the line is high and the call has      *)
(* neither written to nor read from the serial channel.  The reset of the  *)
(* constructor is the same pulse with the default duration of 500.         *)
(***************************************************************************)
Pulse(duration) ==
    <<PinSet("high"), Sleep(duration), Feed,
      PinSet("low"), Sleep(duration), Feed,
      PinSet("high"), Sleep(duration), Feed>>

C20_ResetPulse ==
    /\ call.op = "reset" =>
          /\ Idle
          /\ err = "none"
          /\ ret = RetNone
          /\ trace = Pulse(call.int)
          /\ reset_pin = "high"
    /\ call.op = "__init__" =>
          /\ SubSeq(trace, 1, 9) = Pulse(500)
          /\ \A i \in 10 .. Len(trace) : trace[i].kind # "pin"
          /\ reset_pin = "high"

\* a reset with a pulse duration of 10 returned
C20_Witness ==
    /\ Finished("reset")
    /\ call.int = 10
    /\ reset_pin = "high"
    /\ Len(trace) = 9
    /\ trace[5] = Sleep(10)

(***************************************************************************)
(* C21.  Whenever the readiness poll has returned normally, in the         *)
(* constructor or in send_break_condition, the cached hardware EUI is not  *)
(* the sentinel and is the decoded answer to the last hardware-EUI query   *)
(* the poll wrote: every query was answered and no query follows the last  *)
(* answer.                                                                 *)
(***************************************************************************)
\* the poll called by the constructor or by send_break_condition returned
PollReturned ==
    /\ call.op \in {"__init__", "send_break_condition"}
    /\ err = "none"
    /\ \/ Idle
       \/ Running("__init__", 80)
       \/ Running("send_break_condition", 138)

C21_PollLeavesRealEui ==
    PollReturned =>
        /\ hw_eui # "invalid_param"
        /\ LastReadline > 0
        /\ hw_eui = decode_strip(trace[LastReadline].resp)
        /\ Len(Readlines) = Len(Writes)
        /\ \A i \in (LastReadline + 1) .. Len(trace) : ~IsWrite(trace[i])

\* the constructor returned after one sentinel: three queries, the cached
\* EUI is the answer to the third
C21_Witness ==
    /\ Finished("__init__")
    /\ constructed
    /\ err = "none"
    /\ Len(Writes) = 3
    /\ decode_strip(Readlines[1]) = "invalid_param"
    /\ decode_strip(Readlines[3]) = "example_hw_eui"
    /\ hw_eui = "example_hw_eui"

(***************************************************************************)
(* C22.  On a constructed driver the join-and-configure sequence never     *)
(* writes `mac set deveui` with the sentinel "invalid_param" as the device *)
(* EUI, whatever the module answers to the hardware-EUI query of the       *)
(* sequence.                                                               *)
(***************************************************************************)
C22_DeveuiNeverSentinel ==
    (constructed /\ call.op = "initialize_ttn_otaa") =>
        \A i \in 1 .. Len(trace) :
            IsWrite(trace[i]) =>
                trace[i].data # "mac set deveui invalid_param\r\n"

(***************************************************************************)
(* C23.  With the default read timeout and the watchdog window of the      *)
(* application, the blocking time accumulated without a watchdog feed      *)
(* (the timed sleeps, and the timeout for each readline or read) never     *)
(* exceeds the window in any operation.                                    *)
(***************************************************************************)
\* the longest an event may block
BlockingTime(e) ==
    IF e.kind = "sleep" THEN e.ms
    ELSE IF e.kind \in {"readline", "read"} THEN uart_timetout
    ELSE 0

\* the longest blocking time accumulated in evs between feeds, unfed being
\* the time accumulated since the last feed before evs
RECURSIVE LongestUnfed(_, _)
LongestUnfed(evs, unfed) ==
    IF evs = <<>> THEN unfed
    ELSE IF Head(evs) = Feed
    THEN LET rest == LongestUnfed(Tail(evs), 0) IN
         IF rest > unfed THEN rest ELSE unfed
    ELSE LongestUnfed(Tail(evs), unfed + BlockingTime(Head(evs)))

C23_FedWithinWindow == LongestUnfed(trace, 0) <= wdt_timeout

====
